---------------------------- MODULE Spec2Model ----------------------------
(***************************************************************************)
(* State-machine model of the ATN graph renderer                           *)
(* (src/src/webview-scripts/ATNGraphRenderer.ts).                          *)
(*                                                                         *)
(* Numbers: coordinates are integers; scale factors are in hundredths      *)
(* (k = 100 is scale 1.0); the simulation's alpha is in thousandths.       *)
(* The d3 behaviours the renderer configures (zoom, drag, forceSimulation) *)
(* are modelled by what the calls made in the source do.                   *)
(***************************************************************************)
EXTENDS Integers, Sequences, FiniteSets, TLC

VARIABLES
    data,        \* IATNGraphRendererData handed to the constructor, plus the viewport
    pc,          \* position of render(): "constructed", "settle", "live"
    settled,     \* iterations of simulation.tick(100) done so far
    x, y,        \* node.x, node.y            (per node, optional number)
    fx, fy,      \* node.fx, node.fy          (per node, null / undefined / number)
    width,       \* node.width                (per node, optional number)
    transform,   \* the zoom transform {k, x, y} stored by d3-zoom
    alpha,       \* simulation.alpha()       (thousandths)
    alphaTarget, \* simulation.alphaTarget() (thousandths)
    running,     \* whether the simulation's timer is running
    gesture,     \* d3-drag gesture: subject node, active, moved (mousemoving), and
                 \* the position (e.x, e.y) of its last event while it is active
    paints,      \* number of paints done (animationTick / animationEnd), saturating
    lastPaint,   \* "none", "tick" (animationTick) or "end" (animationEnd)
    painted,     \* the attributes drawn by the last paint: figures and links
    last,        \* the handler that ran last
    lab,         \* appendLinkText: one link's labels, maxLabelCount and the tspans made
    geo,         \* endCoordinate: one link's geometry and the end point computed
    visitor,     \* RuleVisitor: its scripts map, the rule spec visited last and the result
    previous     \* the renderer this one replaced on redisplay, if any

vars == <<data, pc, settled, x, y, fx, fy, width, transform, alpha, alphaTarget,
          running, gesture, paints, lastPaint, painted, last, lab, geo, visitor,
          previous>>

nodeVars == <<x, y, fx, fy, width>>
simVars == <<alpha, alphaTarget, running>>
paintVars == <<paints, lastPaint, painted>>
pureVars == <<lab, geo, visitor>>

-----------------------------------------------------------------------------
(* Bounds of the model *)

\* the paint counter saturates here
MaxPaints == 2
\* a re-heated alpha is tracked up to this value (thousandths); above it the
\* simulation only ever compares alpha with AlphaMin
AlphaHot == 85
\* ticks of a replaced renderer's simulation that are counted
MaxStrayTicks == 1
\* pointer coordinates of drag events range over -MaxPointer .. MaxPointer
MaxPointer == 31

-----------------------------------------------------------------------------
(* Program constants *)

gridSize == 20
ScaleMin == 15
ScaleMax == 300
SettleTicks == 100
ReheatTarget == 300
StartX == -1000
\* d3.forceSimulation defaults: alpha 1, alphaMin 0.001, alphaDecay 0.0228
AlphaInit == 1000
AlphaMin == 1
DecayNum == 228
DecayDen == 10000
\* ATNStateType
ATNRuleType == 0
BASIC == 1
RULE_START == 2
RULE_STOP == 7
\* number of entries of the stateType table (state types 0 .. 12)
stateTypeCount == 13
\* rect sizing
MinTextWidth == 70
border == 20

-----------------------------------------------------------------------------
(* JavaScript optional numbers *)

Null == [t |-> "null", v |-> 0]
Undefined == [t |-> "undefined", v |-> 0]
Num(n) == [t |-> "num", v |-> n]

\* p == null (loose equality: null or undefined)
IsNullish(p) == p.t # "num"
\* !p
Falsy(p) == p.t # "num" \/ p.v = 0
\* p ?? d
OrElse(p, d) == IF IsNullish(p) THEN d ELSE p.v

Min(a, b) == IF a < b THEN a ELSE b
Max(a, b) == IF a > b THEN a ELSE b
Abs(a) == IF a < 0 THEN -a ELSE a

Nodes == DOMAIN data.types

-----------------------------------------------------------------------------
(* Inputs *)

\* The graphs and display options handed in by the collaborator.
\*   types: state type per node; textLen: getComputedTextLength of the node's
\*   name, in tenths; fy0: a vertical pin set by the collaborator before render;
\*   links: source and target node index of every link.
ConfigA ==
    [types |-> <<RULE_START, RULE_STOP>>, textLen |-> <<300, 300>>,
     links |-> << <<1, 2>> >>,
     fy0 |-> <<Undefined, Undefined>>,
     initialScale |-> 50, initialTranslation |-> [x |-> Undefined, y |-> Undefined],
     clientWidth |-> 800, clientHeight |-> 400]

ConfigB ==
    [types |-> <<RULE_START, ATNRuleType>>, textLen |-> <<300, 925>>,
     links |-> << <<1, 2>>, <<2, 2>> >>,
     fy0 |-> <<Num(40), Undefined>>,
     initialScale |-> 500, initialTranslation |-> [x |-> Num(40), y |-> Num(20)],
     clientWidth |-> 800, clientHeight |-> 400]

ConfigC ==
    [types |-> <<BASIC, RULE_STOP>>, textLen |-> <<100, 300>>,
     links |-> << <<1, 1>>, <<1, 2>> >>,
     fy0 |-> <<Undefined, Num(40)>>,
     initialScale |-> 100, initialTranslation |-> [x |-> Num(40), y |-> Undefined],
     clientWidth |-> 0, clientHeight |-> 0]

\* Two rule-call nodes, one with a short name and one with a long name.
ConfigD ==
    [ConfigB EXCEPT !.types = <<ATNRuleType, ATNRuleType>>, !.textLen = <<100, 925>>,
                    !.fy0 = <<Undefined, Undefined>>]

\* Inputs the renderer is not prepared for: a link whose target, or whose
\* source, is no index of the node sequence, and a state type without an
\* entry in the stateType table.
ConfigBadTarget ==
    [ConfigA EXCEPT !.links = << <<1, 2>>, <<2, 3>> >>]

ConfigBadSource ==
    [ConfigC EXCEPT !.links = << <<1, 2>>, <<3, 2>> >>]

ConfigUnknownType ==
    [ConfigA EXCEPT !.types = <<RULE_START, stateTypeCount>>]

Configs == { ConfigA, ConfigB, ConfigC, ConfigBadTarget, ConfigBadSource, ConfigUnknownType }

\* Layouts the forces can leave the nodes at after one step (a node takes its
\* place along the axes on which it is free).
ForcePts == { <<-13, 26>>, <<26, -13>> }
ForceLayouts == { f \in [Nodes -> ForcePts] : \A m, n \in Nodes : m # n => f[m] # f[n] }
\* Pointer positions of drag events.
PointerPts == { <<-30, 10>> }
\* Wheel gestures: the factor 2^delta applied to the scale, in hundredths.
WheelFactors == { 1, 10000 }
\* Translations a pan gesture can leave the view at.
PanPts == { <<-60, 120>> }

-----------------------------------------------------------------------------
(* Geometry utilities *)

\* Math.round(value / gridSize) * gridSize; Math.round rounds halves up.
snapToGrid(value) == ((2 * value + gridSize) \div (2 * gridSize)) * gridSize

\* Math.ceil of a length given in tenths.
CeilTenths(t) == -((-t) \div 10)

-----------------------------------------------------------------------------
(* View transform *)

\* d3.zoomIdentity.scale(k).translate(tx, ty): translate multiplies by k.
ScaleTranslate(k, tx, ty) == [k |-> k, x |-> (k * tx) \div 100, y |-> (k * ty) \div 100]

\* resetNodePositions, per node: fx and fy are cleared first; then a start or
\* stop node gets fy = 0 when its (just cleared) fy is falsy, and a start node
\* without an x gets the initial x.
\* a reset that leaves fx as it is
ResetFxKept(type, oldFx) == oldFx

ResetFx(type, oldFx) == Null

ResetFy(type, oldFy) ==
    LET cleared == Null
    IN  IF type \in {RULE_START, RULE_STOP}
        THEN (IF Falsy(cleared) THEN Num(0) ELSE cleared)
        ELSE cleared

ResetX(type, oldX) ==
    IF type = RULE_START /\ oldX.t = "undefined" THEN Num(StartX) ELSE oldX

resetNodePositions ==
    /\ fx' = [n \in Nodes |-> ResetFx(data.types[n], fx[n])]
    /\ fy' = [n \in Nodes |-> ResetFy(data.types[n], fy[n])]
    /\ x' = [n \in Nodes |-> ResetX(data.types[n], x[n])]

\* The transform resetTransformation hands to zoom.transform, which applies
\* it without constraining it to the scale extent.
InitialTransform ==
    ScaleTranslate(data.initialScale,
                   OrElse(data.initialTranslation.x, data.clientWidth \div 2),
                   OrElse(data.initialTranslation.y, data.clientHeight \div 2))

\* resetTransformation, applying the initial scale and translation on top of
\* the current transform (zoom.scaleBy / zoom.translateBy) instead of setting it
resetTransformationRelative ==
    /\ pc = "live"
    /\ transform' = [k |-> (transform.k * data.initialScale) \div 100,
                     x |-> transform.x + InitialTransform.x,
                     y |-> transform.y + InitialTransform.y]
    /\ resetNodePositions
    /\ last' = "reset"
    /\ UNCHANGED <<data, pc, settled, y, width, simVars, gesture, paintVars, pureVars, previous>>

\* resetTransformation called by the collaborator after render().
resetTransformation ==
    /\ pc = "live"
    /\ transform' = InitialTransform
    /\ resetNodePositions
    /\ last' = "reset"
    /\ UNCHANGED <<data, pc, settled, y, width, simVars, gesture, paintVars, pureVars, previous>>

\* zoom "zoom" handler after a wheel gesture about the graph origin: d3-zoom
\* clamps the new scale to scaleExtent([0.15, 3]).
ClampScale(k) == Max(ScaleMin, Min(ScaleMax, k))

Zoomed(f) ==
    /\ pc = "live"
    /\ ClampScale((transform.k * f) \div 100) # transform.k
    /\ transform' = [transform EXCEPT !.k = ClampScale((transform.k * f) \div 100)]
    /\ last' = "zoom"
    /\ UNCHANGED <<data, pc, settled, nodeVars, simVars, gesture, paintVars, pureVars, previous>>

\* zoom "zoom" handler after a pan gesture (translateExtent is unbounded).
Panned(p) ==
    /\ pc = "live"
    /\ <<transform.x, transform.y>> # p
    /\ transform' = [transform EXCEPT !.x = p[1], !.y = p[2]]
    /\ last' = "pan"
    /\ UNCHANGED <<data, pc, settled, nodeVars, simVars, gesture, paintVars, pureVars, previous>>

-----------------------------------------------------------------------------
(* Label flow *)

\* a summary tspan that counts the label on the last shown line as hidden
MoreSpanOffByOne(n) == [kind |-> "more", content |-> "", class |-> "", n |-> n + 1]

\* a tspan for a label that is never given the label's class
LabelSpanWithoutClass(label) == [kind |-> "label", content |-> label.content, class |-> "", n |-> 0]

\* The tspan made for a label.
LabelSpan(label) == [kind |-> "label", content |-> label.content, class |-> label.class, n |-> 0]

\* The summary tspan "<n> more ...".
MoreSpan(n) == [kind |-> "more", content |-> "", class |-> "", n |-> n]

\* appendLinkText for one link: the loop over link.labels from label i on,
\* tspans being the spans appended so far.
RECURSIVE AppendFrom(_, _, _, _)
AppendFrom(labels, maxLabelCount, i, tspans) ==
    IF i > Len(labels) THEN tspans
    ELSE LET withLabel == Append(tspans, LabelSpan(labels[i]))
             remainingCount == Len(labels) - maxLabelCount
         IN  IF i = maxLabelCount
             THEN (IF remainingCount > 0
                   THEN Append(withLabel, MoreSpan(Len(labels) - maxLabelCount))
                   ELSE withLabel)
             ELSE AppendFrom(labels, maxLabelCount, i + 1, withLabel)

\* appendLinkText with a cap of at least one label
appendLinkTextCappedAtOne(labels, maxLabelCount) ==
    AppendFrom(labels, Max(maxLabelCount, 1), 1, <<>>)

appendLinkText(labels, maxLabelCount) == AppendFrom(labels, maxLabelCount, 1, <<>>)

-----------------------------------------------------------------------------
(* Edge clipping *)
(* Lines are given in half units (every coordinate doubled), so that the   *)
(* rectangle's half width is an integer; numbers returned are fractions    *)
(* n / d with d > 0.                                                       *)

\* The number n / d (d > 0) in lowest terms.
RECURSIVE GCD(_, _)
GCD(a, b) == IF b = 0 THEN a ELSE GCD(b, a % b)

Frac(n, d) ==
    LET g == GCD(IF n < 0 THEN -n ELSE n, d)
    IN  [n |-> n \div g, d |-> d \div g]

Line(x1, y1, x2, y2) == [x1 |-> x1, y1 |-> y1, x2 |-> x2, y2 |-> y2]

\* 0 <= num / den <= 1 in JavaScript arithmetic: a division by zero gives
\* NaN or an infinity, for which the comparison fails.
InUnit(num, den) ==
    /\ den # 0
    /\ IF den > 0 THEN 0 <= num /\ num <= den ELSE den <= num /\ num <= 0

\* lineIntersection, with the point taken at parameter s instead of t
lineIntersectionAlongS(line1, line2) ==
    LET s1X == line1.x2 - line1.x1
        s1Y == line1.y2 - line1.y1
        s2X == line2.x2 - line2.x1
        s2Y == line2.y2 - line2.y1
        den == -s2X * s1Y + s1X * s2Y
        sNum == -s1Y * (line1.x1 - line2.x1) + s1X * (line1.y1 - line2.y1)
        tNum == s2X * (line1.y1 - line2.y1) - s2Y * (line1.x1 - line2.x1)
        sgn == IF den < 0 THEN -1 ELSE 1
    IN  IF InUnit(sNum, den) /\ InUnit(tNum, den)
        THEN [hit |-> TRUE,
              xn |-> sgn * (line1.x1 * den + sNum * s1X),
              yn |-> sgn * (line1.y1 * den + sNum * s1Y),
              d |-> sgn * den, den |-> den]
        ELSE [hit |-> FALSE, xn |-> 0, yn |-> 0, d |-> 1, den |-> den]

\* lineIntersection that takes a zero denominator for an intersection at the
\* start of line1
lineIntersectionOfParallels(line1, line2) ==
    LET s1X == line1.x2 - line1.x1
        s1Y == line1.y2 - line1.y1
        s2X == line2.x2 - line2.x1
        s2Y == line2.y2 - line2.y1
        den == -s2X * s1Y + s1X * s2Y
        sNum == -s1Y * (line1.x1 - line2.x1) + s1X * (line1.y1 - line2.y1)
        tNum == s2X * (line1.y1 - line2.y1) - s2Y * (line1.x1 - line2.x1)
        sgn == IF den < 0 THEN -1 ELSE 1
    IN  IF den = 0
        THEN [hit |-> TRUE, xn |-> line1.x1, yn |-> line1.y1, d |-> 1, den |-> den]
        ELSE IF InUnit(sNum, den) /\ InUnit(tNum, den)
        THEN [hit |-> TRUE,
              xn |-> sgn * (line1.x1 * den + tNum * s1X),
              yn |-> sgn * (line1.y1 * den + tNum * s1Y),
              d |-> sgn * den, den |-> den]
        ELSE [hit |-> FALSE, xn |-> 0, yn |-> 0, d |-> 1, den |-> den]

\* lineIntersection: hit is FALSE when undefined is returned; den is the
\* denominator of s and t.
lineIntersection(line1, line2) ==
    LET s1X == line1.x2 - line1.x1
        s1Y == line1.y2 - line1.y1
        s2X == line2.x2 - line2.x1
        s2Y == line2.y2 - line2.y1
        den == -s2X * s1Y + s1X * s2Y
        sNum == -s1Y * (line1.x1 - line2.x1) + s1X * (line1.y1 - line2.y1)
        tNum == s2X * (line1.y1 - line2.y1) - s2Y * (line1.x1 - line2.x1)
        sgn == IF den < 0 THEN -1 ELSE 1
    IN  IF InUnit(sNum, den) /\ InUnit(tNum, den)
        THEN [hit |-> TRUE,
              xn |-> sgn * (line1.x1 * den + tNum * s1X),
              yn |-> sgn * (line1.y1 * den + tNum * s1Y),
              d |-> sgn * den, den |-> den]
        ELSE [hit |-> FALSE, xn |-> 0, yn |-> 0, d |-> 1, den |-> den]

\* The lineIntersection results endCoordinate obtains for such a link, in the
\* order of its tests (top, bottom, left, right edge), up to the first
\* intersection found.
EdgeTests(sx, sy, tx, ty, w) ==
    LET line1 == Line(2 * sx, 2 * sy, 2 * tx, 2 * ty)
        es == << lineIntersection(line1, Line(2 * tx - w, 2 * ty - 50, 2 * tx + w, 2 * ty - 50)),
                 lineIntersection(line1, Line(2 * tx - w, 2 * ty + 50, 2 * tx + w, 2 * ty + 50)),
                 lineIntersection(line1, Line(2 * tx - w, 2 * ty - 50, 2 * tx - w, 2 * ty + 50)),
                 lineIntersection(line1, Line(2 * tx + w, 2 * ty - 50, 2 * tx + w, 2 * ty + 50)) >>
        hits == { i \in 1..4 : es[i].hit }
    IN  IF hits = {} THEN es
        ELSE SubSeq(es, 1, CHOOSE i \in hits : \A j \in hits : i <= j)

\* endCoordinate for a link whose source is at (sx, sy) and whose target, a
\* rule-call node of width w, is at (tx, ty).
endCoordinate(horizontal, sx, sy, tx, ty, w) ==
    LET line1 == Line(2 * sx, 2 * sy, 2 * tx, 2 * ty)
        e1 == lineIntersection(line1, Line(2 * tx - w, 2 * ty - 50, 2 * tx + w, 2 * ty - 50))
        e2 == lineIntersection(line1, Line(2 * tx - w, 2 * ty + 50, 2 * tx + w, 2 * ty + 50))
        e3 == lineIntersection(line1, Line(2 * tx - w, 2 * ty - 50, 2 * tx - w, 2 * ty + 50))
        e4 == lineIntersection(line1, Line(2 * tx + w, 2 * ty - 50, 2 * tx + w, 2 * ty + 50))
        Coord(e) == IF horizontal THEN Frac(e.xn, 2 * e.d) ELSE Frac(e.yn, 2 * e.d)
    IN  IF e1.hit THEN Coord(e1)
        ELSE IF e2.hit THEN Coord(e2)
        ELSE IF e3.hit THEN Coord(e3)
        ELSE IF e4.hit THEN Coord(e4)
        ELSE Frac(IF horizontal THEN tx ELSE ty, 1)

-----------------------------------------------------------------------------
(* Painting *)

\* transform: the translate(x, y) drawn for a node's figure, text and description
transformOf(px, py, n) == <<OrElse(px[n], 0), OrElse(py[n], 0)>>

\* snapTransform
snapTransform(px, py, n) == <<snapToGrid(OrElse(px[n], 0)), snapToGrid(OrElse(py[n], 0))>>

\* endCoordinate for the link from node s to node t: the clipping applies to
\* a rule-call target only, any other target gives its centre.
endCoordinateOf(horizontal, s, t, px, py, w) ==
    IF data.types[t] = ATNRuleType
    THEN endCoordinate(horizontal, OrElse(px[s], 0), OrElse(py[s], 0),
                       OrElse(px[t], 0), OrElse(py[t], 0), OrElse(w[t], 0))
    ELSE Frac(IF horizontal THEN OrElse(px[t], 0) ELSE OrElse(py[t], 0), 1)

\* transformLines for the link from node s to node t: x1, y1 and the
\* fractions x2, y2.
transformLines(s, t, px, py, w) ==
    [x1 |-> OrElse(px[s], 0), y1 |-> OrElse(py[s], 0),
     x2 |-> endCoordinateOf(TRUE, s, t, px, py, w),
     y2 |-> endCoordinateOf(FALSE, s, t, px, py, w)]

\* an atan2 that gives a right angle for the zero vector
Atan2ZeroAsVertical(dy, dx) ==
    IF dx = 0 /\ dy = 0 THEN [dx |-> 0, dy |-> 1]
    ELSE LET g == GCD(Abs(dx), Abs(dy)) IN [dx |-> dx \div g, dy |-> dy \div g]

\* Math.atan2(dy, dx) as the direction it is the angle of, in lowest terms;
\* atan2(0, 0) is 0, the angle of the direction (1, 0).
Atan2(dy, dx) ==
    IF dx = 0 /\ dy = 0 THEN [dx |-> 1, dy |-> 0]
    ELSE LET g == GCD(Abs(dx), Abs(dy)) IN [dx |-> dx \div g, dy |-> dy \div g]

\* a transformLinkLabels whose first two cases include the angles of exactly
\* 45 and 135 degrees
transformLinkLabelsInclusive(s, t, px, py, w) ==
    LET sourceX == OrElse(px[s], 0)
        sourceY == OrElse(py[s], 0)
        targetX == OrElse(px[t], 0)
        targetY == OrElse(py[t], 0)
        slope == Atan2(targetY - sourceY, targetX - sourceX)
        sourceClear == IF Falsy(w[s]) THEN 50 ELSE w[s].v
        targetClear == IF Falsy(w[t]) THEN 50 ELSE w[t].v
        anchor == [x4 |-> 2 * (targetX + sourceX) + sourceClear - targetClear,
                   y2 |-> targetY + sourceY]
    IN  IF slope.dx > 0 /\ Abs(slope.dy) <= slope.dx
        THEN [anchor |-> anchor, rotate |-> [dx |-> slope.dx, dy |-> slope.dy, plus |-> 0],
              xOffset |-> 0, yOffset |-> 0]
        ELSE IF slope.dx < 0 /\ Abs(slope.dy) <= -slope.dx
        THEN [anchor |-> anchor, rotate |-> [dx |-> slope.dx, dy |-> slope.dy, plus |-> 180],
              xOffset |-> 10, yOffset |-> 0]
        ELSE [anchor |-> anchor, rotate |-> [dx |-> 1, dy |-> 0, plus |-> 0],
              xOffset |-> 10, yOffset |-> -10]

\* transformLinkLabels for the link from node s to node t. The anchor is
\* given as 4 * x and 2 * y; the rotation is the angle of the direction
\* (dx, dy) plus `plus` degrees.
transformLinkLabels(s, t, px, py, w) ==
    LET sourceX == OrElse(px[s], 0)
        sourceY == OrElse(py[s], 0)
        targetX == OrElse(px[t], 0)
        targetY == OrElse(py[t], 0)
        slope == Atan2(targetY - sourceY, targetX - sourceX)
        sourceClear == IF Falsy(w[s]) THEN 50 ELSE w[s].v
        targetClear == IF Falsy(w[t]) THEN 50 ELSE w[t].v
        anchor == [x4 |-> 2 * (targetX + sourceX) + sourceClear - targetClear,
                   y2 |-> targetY + sourceY]
    IN  IF slope.dx > 0 /\ Abs(slope.dy) < slope.dx
        THEN [anchor |-> anchor, rotate |-> [dx |-> slope.dx, dy |-> slope.dy, plus |-> 0],
              xOffset |-> 0, yOffset |-> 0]
        ELSE IF slope.dx < 0 /\ Abs(slope.dy) < -slope.dx
        THEN [anchor |-> anchor, rotate |-> [dx |-> slope.dx, dy |-> slope.dy, plus |-> 180],
              xOffset |-> 10, yOffset |-> 0]
        ELSE [anchor |-> anchor, rotate |-> [dx |-> 1, dy |-> 0, plus |-> 0],
              xOffset |-> 10, yOffset |-> -10]

\* a paint whose snap pass draws the links from the snapped positions too
PaintSnappingLinks(px, py, snap) ==
    LET sx == [n \in Nodes |-> IF snap THEN Num(snapToGrid(OrElse(px[n], 0))) ELSE px[n]]
        sy == [n \in Nodes |-> IF snap THEN Num(snapToGrid(OrElse(py[n], 0))) ELSE py[n]]
    IN  [figures |-> [n \in Nodes |-> transformOf(sx, sy, n)],
         links |-> [i \in DOMAIN data.links |->
                       [line |-> transformLines(data.links[i][1], data.links[i][2],
                                                sx, sy, width),
                        label |-> transformLinkLabels(data.links[i][1], data.links[i][2],
                                                      sx, sy, width)]]]

\* What a paint draws from the node positions px, py: the figures at their
\* (snapped, for animationEnd) positions, and every link's line and label.
Paint(px, py, snap) ==
    [figures |-> [n \in Nodes |->
                     IF snap THEN snapTransform(px, py, n) ELSE transformOf(px, py, n)],
     links |-> [i \in DOMAIN data.links |->
                   [line |-> transformLines(data.links[i][1], data.links[i][2], px, py, width),
                    label |-> transformLinkLabels(data.links[i][1], data.links[i][2],
                                                  px, py, width)]]]

NotPainted == [figures |-> <<>>, links |-> <<>>]

-----------------------------------------------------------------------------
(* Simulation *)

\* simulation.tick: alpha += (alphaTarget - alpha) * alphaDecay
AlphaStep(a, target) ==
    LET n == a + ((target - a) * DecayNum) \div DecayDen
    IN  IF n > a THEN Min(n, Max(a, AlphaHot)) ELSE n

\* a tick that lets the forces move a node along a pinned axis too
MovedIgnoringPin(px, pfx, f) == Num(f)

\* simulation.tick: a node moves under the forces except along a pinned axis,
\* where it is put at the pin.
Moved(px, pfx, f) == IF IsNullish(pfx) THEN Num(f) ELSE pfx

TickNodes(f) ==
    /\ x' = [n \in Nodes |-> Moved(x[n], fx[n], f[n][1])]
    /\ y' = [n \in Nodes |-> Moved(y[n], fy[n], f[n][2])]

\* d3.forceSimulation(nodes) initialises the nodes: pinned axes are put at the
\* pin, and a node without a position is placed on the phyllotaxis spiral.
Phyllotaxis(n) == IF n = 1 THEN <<7, 0>> ELSE IF n = 2 THEN <<-9, 8>> ELSE <<1, -16>>

InitialX(px, py, pfx, pfy, n) ==
    LET ax == IF IsNullish(pfx) THEN px ELSE pfx
        ay == IF IsNullish(pfy) THEN py ELSE pfy
    IN  IF IsNullish(ax) \/ IsNullish(ay) THEN Num(Phyllotaxis(n)[1]) ELSE ax

InitialY(px, py, pfx, pfy, n) ==
    LET ax == IF IsNullish(pfx) THEN px ELSE pfx
        ay == IF IsNullish(pfy) THEN py ELSE pfy
    IN  IF IsNullish(ax) \/ IsNullish(ay) THEN Num(Phyllotaxis(n)[2]) ELSE ay

\* animationTick, painting the node positions x', y'
animationTick ==
    /\ paints' = Min(paints + 1, MaxPaints)
    /\ lastPaint' = "tick"
    /\ painted' = Paint(x', y', FALSE)


\* animationEnd, painting the node positions x', y'
animationEnd ==
    /\ paints' = Min(paints + 1, MaxPaints)
    /\ lastPaint' = "end"
    /\ painted' = Paint(x', y', TRUE)

\* The timer callback of the simulation (d3 "step"): one tick, the "tick"
\* event (animationTick), and when alpha < alphaMin the timer stops and the
\* "end" event (animationEnd) follows.
Step(f) ==
    /\ pc \in {"live", "failed"}
    /\ running
    /\ alpha' = AlphaStep(alpha, alphaTarget)
    /\ TickNodes(f)
    /\ IF pc = "failed"
       THEN \* render() threw before it registered the tick and end handlers
            /\ running' = (AlphaStep(alpha, alphaTarget) >= AlphaMin)
            /\ UNCHANGED paintVars
       ELSE IF AlphaStep(alpha, alphaTarget) < AlphaMin
       THEN \* animationTick, then stepper.stop() and animationEnd
            /\ running' = FALSE
            /\ paints' = Min(paints + 2, MaxPaints)
            /\ lastPaint' = "end"
            /\ painted' = Paint(x', y', TRUE)
       ELSE /\ running' = running
            /\ animationTick
    /\ last' = "tick"
    /\ UNCHANGED <<data, pc, settled, fx, fy, width, transform, alphaTarget, gesture, pureVars, previous>>

-----------------------------------------------------------------------------
(* render() *)

\* a rect sizing without the minimum text width
RectWidthWithoutMinimum(type, textLen, oldWidth) ==
    IF type = ATNRuleType
    THEN Num(CeilTenths(textLen) + border)
    ELSE oldWidth

\* rect sizing: max(ceil(text length), 70) + border, for rule-call nodes only.
RectWidth(type, textLen, oldWidth) ==
    IF type = ATNRuleType
    THEN Num(Max(CeilTenths(textLen), MinTextWidth) + border)
    ELSE oldWidth

\* nodes[link.target].type in the marker-end callback throws a TypeError
\* when link.target is no index of nodes.
BadTarget == \E i \in DOMAIN data.links : data.links[i][2] \notin Nodes

\* stateType[figure.type].short throws a TypeError when the table has no
\* entry for the type.
UnknownType == \E n \in Nodes : data.types[n] \notin 0..(stateTypeCount - 1)

\* simulation.force("link", d3.forceLink(links)) initialises the link force,
\* which throws "node not found" for a source that is no node index.
BadSource == \E i \in DOMAIN data.links : data.links[i][1] \notin Nodes

RenderThrows == BadTarget \/ UnknownType \/ BadSource

\* render() ended by an exception. The zoom is set up and resetTransformation
\* has run in every case. An exception of the marker-end callback or of the
\* figure loop leaves nothing else done; the exception of the link force
\* comes after the rects are sized and d3.forceSimulation(nodes) has
\* initialised the nodes and started its timer, and before the tick and end
\* handlers are registered and the simulation is stopped.
RenderFails ==
    /\ pc = "constructed"
    /\ RenderThrows
    /\ transform' = InitialTransform
    /\ fx' = [n \in Nodes |-> ResetFx(data.types[n], fx[n])]
    /\ fy' = [n \in Nodes |-> ResetFy(data.types[n], fy[n])]
    /\ IF BadTarget \/ UnknownType
       THEN /\ x' = [n \in Nodes |-> ResetX(data.types[n], x[n])]
            /\ UNCHANGED <<y, width, simVars>>
       ELSE /\ width' = [n \in Nodes |-> RectWidth(data.types[n], data.textLen[n], width[n])]
            /\ x' = [n \in Nodes |->
                       InitialX(ResetX(data.types[n], x[n]), y[n],
                                ResetFx(data.types[n], fx[n]), ResetFy(data.types[n], fy[n]), n)]
            /\ y' = [n \in Nodes |->
                       InitialY(ResetX(data.types[n], x[n]), y[n],
                                ResetFx(data.types[n], fx[n]), ResetFy(data.types[n], fy[n]), n)]
            /\ alpha' = AlphaInit
            /\ alphaTarget' = 0
            /\ running' = TRUE
    /\ pc' = "failed"
    /\ last' = "render"
    /\ UNCHANGED <<data, settled, gesture, paintVars, pureVars, previous>>

\* render() up to simulation.stop(): zoom set up and resetTransformation,
\* the elements built and sized, the simulation created and stopped.
RenderSetup ==
    /\ pc = "constructed"
    /\ ~RenderThrows
    /\ transform' = InitialTransform
    /\ fx' = [n \in Nodes |-> ResetFx(data.types[n], fx[n])]
    /\ fy' = [n \in Nodes |-> ResetFy(data.types[n], fy[n])]
    /\ width' = [n \in Nodes |-> RectWidth(data.types[n], data.textLen[n], width[n])]
    /\ x' = [n \in Nodes |->
               InitialX(ResetX(data.types[n], x[n]), y[n],
                        ResetFx(data.types[n], fx[n]), ResetFy(data.types[n], fy[n]), n)]
    /\ y' = [n \in Nodes |->
               InitialY(ResetX(data.types[n], x[n]), y[n],
                        ResetFx(data.types[n], fx[n]), ResetFy(data.types[n], fy[n]), n)]
    /\ alpha' = AlphaInit
    /\ alphaTarget' = 0
    /\ running' = FALSE
    /\ settled' = 0
    /\ pc' = "settle"
    /\ last' = "render"
    /\ UNCHANGED <<data, gesture, paintVars, pureVars, previous>>

\* an iteration of the settle pass that dispatches the "tick" event
SettleTickPainting(f) ==
    /\ pc = "settle"
    /\ settled < SettleTicks
    /\ alpha' = AlphaStep(alpha, alphaTarget)
    /\ TickNodes(f)
    /\ settled' = settled + 1
    /\ animationTick
    /\ UNCHANGED <<data, pc, fx, fy, width, transform, alphaTarget, running, gesture,
                   last, pureVars, previous>>

\* One iteration of simulation.tick(100): no event is dispatched.
SettleTick(f) ==
    /\ pc = "settle"
    /\ settled < SettleTicks
    /\ alpha' = AlphaStep(alpha, alphaTarget)
    /\ TickNodes(f)
    /\ settled' = settled + 1
    /\ UNCHANGED <<data, pc, fx, fy, width, transform, alphaTarget, running, gesture,
                   paintVars, last, pureVars, previous>>

\* The initial visual update that ends render().
FirstPaint ==
    /\ pc = "settle"
    /\ settled = SettleTicks
    /\ UNCHANGED <<data, settled, nodeVars, transform, simVars, gesture, last, pureVars, previous>>
    /\ animationTick
    /\ pc' = "live"

-----------------------------------------------------------------------------
(* Interaction *)

\* a dragStarted that sets the target alpha but does not restart the timer
dragStartedWithoutRestart(n, active, ex, ey) ==
    /\ IF active = 0
       THEN alphaTarget' = ReheatTarget /\ running' = running
       ELSE UNCHANGED <<alphaTarget, running>>
    /\ fx' = [fx EXCEPT ![n] = Num(ex)]
    /\ fy' = [fy EXCEPT ![n] = Num(ey)]

\* dragStarted: e.active is the number of other active drag gestures.
dragStarted(n, active, ex, ey) ==
    /\ IF active = 0
       THEN alphaTarget' = ReheatTarget /\ running' = TRUE
       ELSE UNCHANGED <<alphaTarget, running>>
    /\ fx' = [fx EXCEPT ![n] = Num(ex)]
    /\ fy' = [fy EXCEPT ![n] = Num(ey)]

\* dragged, pinning to the raw pointer position
draggedUnsnapped(n, ex, ey) ==
    /\ fx' = [fx EXCEPT ![n] = Num(ex)]
    /\ fy' = [fy EXCEPT ![n] = Num(ey)]

\* dragged
dragged(n, ex, ey) ==
    /\ fx' = [fx EXCEPT ![n] = Num(snapToGrid(ex))]
    /\ fy' = [fy EXCEPT ![n] = Num(snapToGrid(ey))]

\* a doubleClicked that gives a start or stop node its vertical pin 0 back
doubleClickedKeepingDefaultPin(n) ==
    /\ fx' = [fx EXCEPT ![n] = Undefined]
    /\ fy' = [fy EXCEPT ![n] = IF data.types[n] \in {RULE_START, RULE_STOP}
                                THEN Num(0) ELSE Undefined]

\* a doubleClicked that releases the horizontal pin only
doubleClickedKeepsFy(n) ==
    /\ fx' = [fx EXCEPT ![n] = Undefined]
    /\ fy' = fy

\* doubleClicked
doubleClicked(n) ==
    /\ fx' = [fx EXCEPT ![n] = Undefined]
    /\ fy' = [fy EXCEPT ![n] = Undefined]

\* d3-drag "start": pointer-down on a node; the event position is the
\* subject's (the node's) position.
DragStart(n) ==
    /\ pc = "live"
    /\ ~gesture.active
    /\ dragStarted(n, 0, x[n].v, y[n].v)
    /\ gesture' = [node |-> n, active |-> TRUE, moved |-> FALSE, at |-> <<x[n].v, y[n].v>>]
    /\ last' = "dragStarted"
    /\ UNCHANGED <<data, pc, settled, x, y, width, transform, alpha, paintVars, pureVars, previous>>

\* d3-drag "drag": pointer moved to p while the gesture is active.
Drag(p) ==
    /\ pc = "live"
    /\ gesture.active
    /\ dragged(gesture.node, p[1], p[2])
    /\ gesture' = [gesture EXCEPT !.moved = TRUE, !.at = p]
    /\ last' = "dragged"
    /\ UNCHANGED <<data, pc, settled, x, y, width, transform, simVars, paintVars, pureVars, previous>>

\* a pointer-up with an "end" handler that releases the dragged node
DragEndReleasing ==
    /\ pc = "live"
    /\ gesture.active
    /\ gesture' = [gesture EXCEPT !.active = FALSE, !.at = <<0, 0>>]
    /\ fx' = [fx EXCEPT ![gesture.node] = Null]
    /\ fy' = [fy EXCEPT ![gesture.node] = Null]
    /\ last' = "dragEnded"
    /\ UNCHANGED <<data, pc, settled, x, y, width, transform, simVars, paintVars, pureVars, previous>>

\* d3-drag "end": pointer-up; the renderer registers no handler for it.
DragEnd ==
    /\ pc = "live"
    /\ gesture.active
    /\ gesture' = [gesture EXCEPT !.active = FALSE, !.at = <<0, 0>>]
    /\ last' = "dragEnded"
    /\ UNCHANGED <<data, pc, settled, nodeVars, transform, simVars, paintVars, pureVars, previous>>

\* a "dblclick" that also reaches the zoom behaviour (dblclick.zoom left in
\* place), which zooms in by a factor of 2
DoubleClickZooming(n) ==
    /\ pc = "live"
    /\ doubleClicked(n)
    /\ transform' = [transform EXCEPT !.k = ClampScale(transform.k * 2)]
    /\ last' = "doubleClicked"
    /\ UNCHANGED <<data, pc, settled, x, y, width, simVars, gesture,
                   paintVars, pureVars, previous>>

\* "dblclick" on a node's figure.
DoubleClick(n) ==
    /\ pc = "live"
    /\ doubleClicked(n)
    /\ last' = "doubleClicked"
    /\ UNCHANGED <<data, pc, settled, x, y, width, transform, simVars, gesture,
                   paintVars, pureVars, previous>>

-----------------------------------------------------------------------------
(* The renderer *)

\* a RuleVisitor on an empty scripts map that has visited nothing
NoVisitor == [scripts |-> <<>>, name |-> "", hasBlock |-> FALSE, result |-> ""]

NoLab == [labels |-> <<>>, maxLabelCount |-> 0, tspans |-> <<>>, done |-> FALSE]
NoGeo == [sx |-> 0, sy |-> 0, tx |-> 0, ty |-> 0, w |-> 0, done |-> FALSE, tests |-> <<>>,
          endX |-> [n |-> 0, d |-> 1], endY |-> [n |-> 0, d |-> 1],
          label |-> [anchor |-> [x4 |-> 0, y2 |-> 0],
                     rotate |-> [dx |-> 1, dy |-> 0, plus |-> 0],
                     xOffset |-> 0, yOffset |-> 0]]

\* No renderer was replaced: there is no earlier simulation.
NoPrevious == [replaced |-> FALSE, running |-> FALSE, strayTicks |-> 0]

\* The renderer as constructed for the collaborator's input c.
Constructed(c) ==
    /\ data = c
    /\ pc = "constructed"
    /\ settled = 0
    /\ x = [n \in DOMAIN c.types |-> Undefined]
    /\ y = [n \in DOMAIN c.types |-> Undefined]
    /\ fx = [n \in DOMAIN c.types |-> Undefined]
    /\ fy = [n \in DOMAIN c.types |-> c.fy0[n]]
    /\ width = [n \in DOMAIN c.types |-> Undefined]
    /\ transform = [k |-> 100, x |-> 0, y |-> 0]
    /\ alpha = 0
    /\ alphaTarget = 0
    /\ running = FALSE
    /\ gesture = [node |-> 1, active |-> FALSE, moved |-> FALSE, at |-> <<0, 0>>]
    /\ paints = 0
    /\ lastPaint = "none"
    /\ painted = NotPainted
    /\ last = "constructor"
    /\ previous = NoPrevious

rendererVars == <<data, pc, settled, nodeVars, transform, simVars, gesture, paintVars, last,
                  previous>>

Init ==
    /\ \E c \in Configs : Constructed(c)
    /\ lab = NoLab
    /\ geo = NoGeo
    /\ visitor = NoVisitor

Next ==
    \/ RenderSetup
    \/ RenderFails
    \/ \E f \in ForceLayouts : SettleTick(f)
    \/ FirstPaint
    \/ resetTransformation
    \/ \E f \in WheelFactors : Zoomed(f)
    \/ \E p \in PanPts : Panned(p)
    \/ \E n \in Nodes : DragStart(n)
    \/ \E p \in PointerPts : Drag(p)
    \/ DragEnd
    \/ \E n \in Nodes : DoubleClick(n)
    \/ \E f \in ForceLayouts : Step(f)

Spec == Init /\ [][Next]_vars

\* The simulation's timer fires on every animation frame while it runs: a
\* step of the simulation that stays enabled is eventually taken.
SpecFair == Init /\ [][Next]_vars /\ WF_vars(\E f \in ForceLayouts : Step(f))

-----------------------------------------------------------------------------
(* Redisplay: the collaborator replaces the diagram. It reads                *)
(* currentTransformation for its cache, constructs a new renderer for the   *)
(* new graph with the cached scale and translation, and calls render().     *)
(* Neither the constructor nor render() touches an earlier renderer.        *)

\* currentTransformation
currentTransformation == transform

\* The data of the redisplayed diagram: the graph of ConfigA, the view from
\* the cache.
Rehydrated ==
    [ConfigA EXCEPT !.initialScale = currentTransformation.k,
                    !.initialTranslation = [x |-> Num(currentTransformation.x),
                                            y |-> Num(currentTransformation.y)]]

\* new ATNGraphRenderer(data) for the redisplay; render() follows. The
\* simulation of the replaced renderer stays as it is: running if it was.
Redisplay ==
    /\ pc = "live"
    /\ ~previous.replaced
    /\ data' = Rehydrated
    /\ pc' = "constructed"
    /\ settled' = 0
    /\ x' = [n \in DOMAIN Rehydrated.types |-> Undefined]
    /\ y' = [n \in DOMAIN Rehydrated.types |-> Undefined]
    /\ fx' = [n \in DOMAIN Rehydrated.types |-> Undefined]
    /\ fy' = [n \in DOMAIN Rehydrated.types |-> Rehydrated.fy0[n]]
    /\ width' = [n \in DOMAIN Rehydrated.types |-> Undefined]
    /\ alpha' = 0
    /\ alphaTarget' = 0
    /\ running' = FALSE
    /\ gesture' = [node |-> 1, active |-> FALSE, moved |-> FALSE, at |-> <<0, 0>>]
    /\ paints' = 0
    /\ lastPaint' = "none"
    /\ painted' = NotPainted
    /\ last' = "constructor"
    /\ previous' = [replaced |-> TRUE, running |-> running, strayTicks |-> 0]
    /\ UNCHANGED <<transform, pureVars>>

\* The timer callback of the replaced renderer's simulation: it ticks the
\* discarded nodes and calls that renderer's animationTick. Its alphaTarget
\* is the 0.3 of dragStarted, so it does not stop.
StaleStep ==
    /\ previous.replaced
    /\ previous.running
    /\ previous.strayTicks < MaxStrayTicks
    /\ previous' = [previous EXCEPT !.strayTicks = @ + 1]
    /\ UNCHANGED <<data, pc, settled, nodeVars, transform, simVars, gesture, paintVars, last,
                   pureVars>>

InitReplace ==
    /\ \E c \in {ConfigA, ConfigC} : Constructed(c)
    /\ lab = NoLab
    /\ geo = NoGeo
    /\ visitor = NoVisitor

NextReplace ==
    \/ RenderSetup
    \/ \E f \in ForceLayouts : SettleTick(f)
    \/ FirstPaint
    \/ \E f \in WheelFactors : Zoomed(f)
    \/ \E n \in Nodes : DragStart(n)
    \/ \E f \in ForceLayouts : Step(f)
    \/ Redisplay
    \/ StaleStep

SpecReplace == InitReplace /\ [][NextReplace]_vars

-----------------------------------------------------------------------------
(* Drag gestures with the pointer anywhere on a line across the grid *)

\* Pointer positions of drag events: every x in the range, each with a y
\* that runs through the range the other way.
PointerLine == { <<v, 7 - v>> : v \in (-MaxPointer)..MaxPointer }

InitDrag ==
    /\ \E c \in {ConfigA, ConfigB, ConfigD} : Constructed(c)
    /\ lab = NoLab
    /\ geo = NoGeo
    /\ visitor = NoVisitor

NextDrag ==
    \/ RenderSetup
    \/ \E f \in ForceLayouts : SettleTick(f)
    \/ FirstPaint
    \/ \E n \in Nodes : DragStart(n)
    \/ \E p \in PointerLine : Drag(p)
    \/ DragEnd

SpecDrag == InitDrag /\ [][NextDrag]_vars

-----------------------------------------------------------------------------
(* The paint routines on a rendered graph, for node positions on and off    *)
(* the grid as the ticks of the simulation leave them                       *)

PaintCoords == { -30, -13, 10, 26 }

\* A rendered graph after a tick was painted: the nodes anywhere, the first
\* node pinned where it is (as by dragStarted) or free.
InitPaint ==
    /\ \E c \in {ConfigB, ConfigD}, px \in [1..2 -> PaintCoords], py \in [1..2 -> PaintCoords],
          pinned \in BOOLEAN :
          /\ data = c
          /\ x = [n \in 1..2 |-> Num(px[n])]
          /\ y = [n \in 1..2 |-> Num(py[n])]
          /\ fx = [n \in 1..2 |-> IF pinned /\ n = 1 THEN Num(px[n]) ELSE Null]
          /\ fy = [n \in 1..2 |-> IF pinned /\ n = 1 THEN Num(py[n]) ELSE Null]
          /\ width = [n \in 1..2 |-> RectWidth(c.types[n], c.textLen[n], Undefined)]
    /\ pc = "live"
    /\ settled = SettleTicks
    /\ transform = InitialTransform
    /\ alpha = AlphaHot
    /\ alphaTarget = ReheatTarget
    /\ running = TRUE
    /\ gesture = [node |-> 1, active |-> FALSE, moved |-> FALSE, at |-> <<0, 0>>]
    /\ paints = MaxPaints
    /\ lastPaint = "tick"
    /\ painted = Paint(x, y, FALSE)
    /\ last = "tick"
    /\ previous = NoPrevious
    /\ lab = NoLab
    /\ geo = NoGeo
    /\ visitor = NoVisitor

\* animationTick called on the graph
PaintTick ==
    /\ lastPaint = "end"
    /\ UNCHANGED <<data, pc, settled, nodeVars, transform, simVars, gesture, last, pureVars,
                   previous>>
    /\ animationTick

\* animationEnd called on the graph
PaintEnd ==
    /\ lastPaint = "tick"
    /\ UNCHANGED <<data, pc, settled, nodeVars, transform, simVars, gesture, last, pureVars,
                   previous>>
    /\ animationEnd

NextPaint == PaintTick \/ PaintEnd

SpecPaint == InitPaint /\ [][NextPaint]_vars

-----------------------------------------------------------------------------
(* RuleVisitor: the two rule-spec visits on a scripts map *)

MaxAlts == 2

ParserRuleNames == { "expr", "stat" }
LexerRuleNames == { "ID" }

\* what visitAlternative returns for an alternative of a parser rule
AlternativeScripts == { "Sequence()", "Sequence(NonTerminal('expr'))" }
\* what visitLexerAlt returns for an alternative of a lexer rule
LexerAltScripts == { "" }

\* the rule specs visited: a name, a rule block or none, and the scripts of
\* the alternatives of the block (at least one in a block)
SpecContexts(names, scripts) ==
    { [name |-> n, hasBlock |-> b, alts |-> a] :
        n \in names, b \in BOOLEAN, a \in UNION { [1..k -> scripts] : k \in 1..MaxAlts } }

\* visitRuleAltList and visitLexerAltList: "Choice(0" with ", " and the
\* script of each alternative from alternative i on, then ")"
RECURSIVE ChoiceFrom(_, _, _)
ChoiceFrom(alts, i, script) ==
    IF i > Len(alts) THEN script \o ")"
    ELSE ChoiceFrom(alts, i + 1, script \o ", " \o alts[i])

visitRuleAltList(alts) == ChoiceFrom(alts, 1, "Choice(0")

visitLexerAltList(alts) == ChoiceFrom(alts, 1, "Choice(0")

\* Map.set(key, value)
MapSet(map, key, value) ==
    [k \in DOMAIN map \cup {key} |-> IF k = key THEN value ELSE map[k]]

SyntaxError == "# Syntax Error #"

visitParserRuleSpecStoringError(ctx) ==
    LET diagram == IF ctx.hasBlock
                   THEN "ComplexDiagram(" \o visitRuleAltList(ctx.alts) \o ").addTo()"
                   ELSE SyntaxError
    IN  /\ visitor' = [scripts |-> MapSet(visitor.scripts, ctx.name, diagram),
                       name |-> ctx.name, hasBlock |-> ctx.hasBlock, result |-> diagram]
        /\ UNCHANGED <<rendererVars, lab, geo>>

visitParserRuleSpec(ctx) ==
    /\ IF ~ctx.hasBlock
       THEN visitor' = [visitor EXCEPT !.name = ctx.name, !.hasBlock = FALSE,
                                       !.result = SyntaxError]
       ELSE LET diagram == "ComplexDiagram(" \o visitRuleAltList(ctx.alts) \o ").addTo()"
            IN  visitor' = [scripts |-> MapSet(visitor.scripts, ctx.name, diagram),
                            name |-> ctx.name, hasBlock |-> TRUE, result |-> diagram]
    /\ UNCHANGED <<rendererVars, lab, geo>>

visitLexerRuleSpec(ctx) ==
    /\ IF ~ctx.hasBlock
       THEN visitor' = [visitor EXCEPT !.name = ctx.name, !.hasBlock = FALSE,
                                       !.result = SyntaxError]
       ELSE LET diagram == "Diagram(" \o visitLexerAltList(ctx.alts) \o ").addTo()"
            IN  visitor' = [scripts |-> MapSet(visitor.scripts, ctx.name, diagram),
                            name |-> ctx.name, hasBlock |-> TRUE, result |-> diagram]
    /\ UNCHANGED <<rendererVars, lab, geo>>

InitVisitor ==
    /\ Constructed(ConfigA)
    /\ lab = NoLab
    /\ geo = NoGeo
    /\ visitor = NoVisitor

VisitParserRuleSpec ==
    \E ctx \in SpecContexts(ParserRuleNames, AlternativeScripts) : visitParserRuleSpec(ctx)

VisitLexerRuleSpec ==
    \E ctx \in SpecContexts(LexerRuleNames, LexerAltScripts) : visitLexerRuleSpec(ctx)

NextVisitor == VisitParserRuleSpec \/ VisitLexerRuleSpec

SpecVisitor == InitVisitor /\ [][NextVisitor]_vars

-----------------------------------------------------------------------------
(* appendLinkText on one link, for every label list and maxLabelCount *)

MaxLabels == 4
MaxLabelCount == 3

LabelValues == { [content |-> "a", class |-> ""],
                 [content |-> "b", class |-> ""],
                 [content |-> "c", class |-> "emphasis"] }

LabelLists == UNION { [1..k -> LabelValues] : k \in 0..MaxLabels }

InitLabel ==
    /\ Constructed(ConfigA)
    /\ geo = NoGeo
    /\ visitor = NoVisitor
    /\ \E ls \in LabelLists, m \in -1..MaxLabelCount :
          lab = [labels |-> ls, maxLabelCount |-> m, tspans |-> <<>>, done |-> FALSE]

AppendLinkText ==
    /\ ~lab.done
    /\ lab' = [lab EXCEPT !.tspans = appendLinkText(lab.labels, lab.maxLabelCount),
                          !.done = TRUE]
    /\ UNCHANGED <<rendererVars, geo, visitor>>

NextLabel == AppendLinkText

SpecLabel == InitLabel /\ [][NextLabel]_vars

-----------------------------------------------------------------------------
(* transformLines on one link that ends at a rule-call node *)

SourceXs == { -80, -57, -46, -45, -30, -10, 0, 10, 45, 60 }
SourceYs == { -40, -25, -10, 0, 10, 25, 26, 40 }
TargetPts == { <<0, 0>>, <<15, -5>> }
Widths == { 90, 113 }

InitGeom ==
    /\ Constructed(ConfigA)
    /\ lab = NoLab
    /\ visitor = NoVisitor
    /\ \E sx \in SourceXs, sy \in SourceYs, t \in TargetPts, w \in Widths :
          geo = [NoGeo EXCEPT !.sx = t[1] + sx, !.sy = t[2] + sy,
                              !.tx = t[1], !.ty = t[2], !.w = w]

\* The paint of the link: the x2 and y2 attribute callbacks of
\* transformLines and the transform callback of transformLinkLabels (the
\* source is a circular node, the target the rule-call node).
TransformLine ==
    /\ ~geo.done
    /\ geo' = [geo EXCEPT
                 !.endX = endCoordinate(TRUE, geo.sx, geo.sy, geo.tx, geo.ty, geo.w),
                 !.endY = endCoordinate(FALSE, geo.sx, geo.sy, geo.tx, geo.ty, geo.w),
                 !.tests = EdgeTests(geo.sx, geo.sy, geo.tx, geo.ty, geo.w),
                 !.label = transformLinkLabels(1, 2, <<Num(geo.sx), Num(geo.tx)>>,
                                               <<Num(geo.sy), Num(geo.ty)>>,
                                               <<Undefined, Num(geo.w)>>),
                 !.done = TRUE]
    /\ UNCHANGED <<rendererVars, lab, visitor>>

NextGeom == TransformLine

SpecGeom == InitGeom /\ [][NextGeom]_vars

-----------------------------------------------------------------------------
(* Properties *)

OnGrid(p) == p.t = "num" /\ p.v % gridSize = 0
IsStartOrStop(n) == data.types[n] \in {RULE_START, RULE_STOP}

\* C1: once render() has set up the zoom, the scale of the view transform
\* lies in [0.15, 3.0], whatever initialScale the collaborator supplied.
C1_ScaleWithinExtent ==
    pc # "constructed" => ScaleMin <= transform.k /\ transform.k <= ScaleMax

\* C2 (as stated): when a drag sequence ends (pointer-up), fx and fy of the
\* dragged node are exact multiples of the grid unit 20.
C2_EndOfDragOnGrid ==
    last = "dragEnded" => OnGrid(fx[gesture.node]) /\ OnGrid(fy[gesture.node])

\* C2 (amended): every drag event leaves fx and fy of the dragged node exact
\* multiples of 20, and pointer-up changes no pin.
C2_DragEventsSnapPin ==
    [][ /\ last' = "dragged" =>
              OnGrid(fx'[gesture'.node]) /\ OnGrid(fy'[gesture'.node])
        /\ last' = "dragEnded" => fx' = fx /\ fy' = fy ]_vars

C2_Witness ==
    /\ last = "dragEnded"
    /\ gesture.moved
    /\ OnGrid(fx[gesture.node]) /\ OnGrid(fy[gesture.node])
    /\ fx[gesture.node].v # 0

\* C3: after the initial layout every RuleStart and RuleStop node has fy = 0,
\* except that a node the collaborator pre-pinned keeps the collaborator's fy.
C3_StartStopPinnedUnlessPrePinned ==
    (pc = "live" /\ last = "render") =>
        \A n \in Nodes :
            IsStartOrStop(n) =>
                fy[n] = (IF data.fy0[n].t = "num" THEN data.fy0[n] ELSE Num(0))

\* C4 (as stated): a link with more labels than maxLabelCount >= 1 gets
\* exactly maxLabelCount lines, the last being "N more ..." with
\* N = number of labels - maxLabelCount.
C4_ExactlyMaxLines ==
    (lab.done /\ lab.maxLabelCount >= 1 /\ Len(lab.labels) > lab.maxLabelCount) =>
        /\ Len(lab.tspans) = lab.maxLabelCount
        /\ lab.tspans[Len(lab.tspans)].kind = "more"
        /\ lab.tspans[Len(lab.tspans)].n = Len(lab.labels) - lab.maxLabelCount

\* C4 (amended): such a link gets exactly maxLabelCount + 1 lines: its first
\* maxLabelCount labels, then the line "N more ..." with
\* N = number of labels - maxLabelCount.
C4_MaxLabelsThenSummary ==
    (lab.done /\ lab.maxLabelCount >= 1 /\ Len(lab.labels) > lab.maxLabelCount) =>
        /\ Len(lab.tspans) = lab.maxLabelCount + 1
        /\ \A i \in 1..lab.maxLabelCount :
              /\ lab.tspans[i].kind = "label"
              /\ lab.tspans[i].content = lab.labels[i].content
        /\ lab.tspans[lab.maxLabelCount + 1].kind = "more"
        /\ lab.tspans[lab.maxLabelCount + 1].n = Len(lab.labels) - lab.maxLabelCount

C4_Witness ==
    /\ lab.done
    /\ Len(lab.labels) = 4
    /\ lab.maxLabelCount = 2
    /\ Len(lab.tspans) = 3
    /\ lab.tspans[3].kind = "more" /\ lab.tspans[3].n = 2

\* The source centre lies strictly inside the target rectangle (half width
\* w / 2, half height 25): the centre segment then meets none of its edges.
SourceInsideRect == 2 * Abs(geo.sx - geo.tx) < geo.w /\ Abs(geo.sy - geo.ty) < 25

\* The point (endX, endY) lies on the boundary of the target rectangle.
EndOnRectBoundary ==
    LET dx == Abs(geo.endX.n - geo.tx * geo.endX.d)
        dy == Abs(geo.endY.n - geo.ty * geo.endY.d)
    IN  \/ 2 * dx = geo.w * geo.endX.d /\ dy <= 25 * geo.endY.d
        \/ dy = 25 * geo.endY.d /\ 2 * dx <= geo.w * geo.endX.d

\* The point (endX, endY) lies on the segment from the source centre to the
\* target centre.
EndOnCentreSegment ==
    LET px == geo.endX.n - geo.sx * geo.endX.d
        py == geo.endY.n - geo.sy * geo.endY.d
    IN  /\ px * (geo.ty - geo.sy) * geo.endY.d = py * (geo.tx - geo.sx) * geo.endX.d
        /\ Min(geo.sx, geo.tx) * geo.endX.d <= geo.endX.n
        /\ geo.endX.n <= Max(geo.sx, geo.tx) * geo.endX.d
        /\ Min(geo.sy, geo.ty) * geo.endY.d <= geo.endY.n
        /\ geo.endY.n <= Max(geo.sy, geo.ty) * geo.endY.d

EndAtTargetCentre ==
    geo.endX.n = geo.tx * geo.endX.d /\ geo.endY.n = geo.ty * geo.endY.d

\* C5: for a link that ends at a rule-call node, the end point (endX, endY)
\* lies on the boundary of the target rectangle and on the segment between the
\* two centres, or is the target centre when that segment meets no edge.
C5_ClipPointOnBoundary ==
    geo.done =>
        IF SourceInsideRect THEN EndAtTargetCentre
        ELSE EndOnRectBoundary /\ EndOnCentreSegment

C5_Witness ==
    /\ geo.done
    /\ ~SourceInsideRect
    /\ geo.sx # geo.tx /\ geo.sy # geo.ty
    /\ EndOnRectBoundary
    /\ ~EndAtTargetCentre

\* C6: a resetTransformation that directly follows a resetTransformation
\* leaves the view transform (scale, x, y) as the first one set it.
C6_ResetTwiceSameTransform ==
    [][ (last = "reset" /\ last' = "reset") => transform' = transform ]_vars

C6_Witness ==
    /\ last = "reset"
    /\ gesture.moved
    /\ transform = InitialTransform
    /\ data.initialTranslation.x = Undefined

C8_ResetResettles ==
    [][ last' = "reset" =>
          /\ \A n \in Nodes : fy'[n].t = "num" => y'[n] = fy'[n]
          /\ paints < MaxPaints => paints' = paints + 1 ]_vars

\* C9: no paint and no tick or end callback happens while the settle steps
\* of render() run, and render() ends with all 100 steps done and exactly one
\* paint.
C9_SettleBeforeFirstPaint ==
    /\ pc = "settle" => paints = 0 /\ lastPaint = "none" /\ ~running
    /\ (pc = "live" /\ last = "render") =>
          settled = SettleTicks /\ paints = 1 /\ lastPaint = "tick"

C9_Witness ==
    pc = "live" /\ last = "render" /\ settled = SettleTicks /\ paints = 1

\* C10: after the first paint and without user interaction the simulation
\* keeps ticking while alpha is not below the stopping threshold, and once it
\* is, the simulation has halted and the snap pass (animationEnd) has run.
C10_TicksUntilCool ==
    (pc = "live" /\ last \in {"render", "tick"} /\ alphaTarget = 0) =>
        IF alpha >= AlphaMin THEN running ELSE ~running /\ lastPaint = "end"

\* C11: when a link's source or target index lies outside the node sequence,
\* render() completes without an error: the bad link is dropped, and the
\* paint that ends render() draws the links with valid indices only.
C11_BadLinkDropped ==
    ((BadTarget \/ BadSource) /\ ~UnknownType) =>
        /\ pc # "failed"
        /\ pc = "live" =>
              \A i \in DOMAIN painted.links :
                  data.links[i][1] \in Nodes /\ data.links[i][2] \in Nodes

\* C12: for a node whose state type is outside the 13 known variants, shape
\* selection in render() does not fail and the rest of the graph renders.
C12_UnknownTypeRenders ==
    (UnknownType /\ ~BadTarget /\ ~BadSource) => pc # "failed"


C13_ParallelWitness ==
    /\ geo.done
    /\ geo.sy = geo.ty /\ geo.sx # geo.tx
    /\ Len(geo.tests) >= 3
    /\ geo.tests[1].den = 0 /\ geo.tests[2].den = 0
    /\ geo.tests[Len(geo.tests)].hit
    /\ EndOnRectBoundary


\* The links whose source and target are the same node.
SelfLoops == { i \in DOMAIN data.links : data.links[i][1] = data.links[i][2] }

\* C14: a self-loop link is kept and rendered without an error; in every
\* frame its line starts and ends at the node's centre, and its label is
\* anchored at the node's centre with rotation 0 (slope 0) and offsets 0, all
\* of them finite numbers (a fraction's denominator is never zero).
C14_SelfLoopRendersFinite ==
    (SelfLoops # {}) =>
        /\ pc # "failed"
        /\ pc = "live" =>
              /\ DOMAIN painted.links = DOMAIN data.links
              /\ \A i \in SelfLoops :
                    LET n == data.links[i][1]
                        p == painted.links[i]
                    IN  /\ p.line.x1 = x[n].v /\ p.line.y1 = y[n].v
                        /\ p.line.x2 = [n |-> x[n].v, d |-> 1]
                        /\ p.line.y2 = [n |-> y[n].v, d |-> 1]
                        /\ p.label.anchor = [x4 |-> 4 * x[n].v, y2 |-> 2 * y[n].v]
                        /\ p.label.rotate = [dx |-> 1, dy |-> 0, plus |-> 0]
                        /\ p.label.xOffset = 0 /\ p.label.yOffset = 0

C14_Witness ==
    /\ pc = "live"
    /\ last = "tick"
    /\ \E i \in SelfLoops :
          /\ data.types[data.links[i][1]] = ATNRuleType
          /\ painted.links[i].line.x2 = [n |-> x[data.links[i][1]].v, d |-> 1]
          /\ painted.links[i].label.rotate = [dx |-> 1, dy |-> 0, plus |-> 0]
          /\ x[data.links[i][1]].v # 0

\* the same for a self-loop of a circular node
C14_CircleWitness ==
    /\ pc = "live"
    /\ last = "tick"
    /\ \E i \in SelfLoops :
          /\ data.types[data.links[i][1]] = BASIC
          /\ painted.links[i].label.anchor.x4 = 4 * x[data.links[i][1]].v
          /\ x[data.links[i][1]].v # 0


\* C15: when the graph model is replaced, the simulation of the previous
\* model is stopped before the new state is built, and no tick of the
\* previous model runs after the replacement.
C15_PreviousStoppedOnReplace ==
    previous.replaced => ~previous.running /\ previous.strayTicks = 0


\* C19: when the snapshot {k, x, y} of currentTransformation is supplied
\* unchanged as initialScale and initialTranslation of a later render, the
\* view transform after that render equals the snapshot, for every k in
\* [0.15, 3.0] and every x, y.
C19_SnapshotRoundTrip ==
    (/\ previous.replaced
     /\ pc \in {"settle", "live"}
     /\ last = "render"
     /\ ScaleMin <= data.initialScale /\ data.initialScale <= ScaleMax) =>
        transform = [k |-> data.initialScale,
                     x |-> data.initialTranslation.x.v,
                     y |-> data.initialTranslation.y.v]


\* C16: a double-click on a node, in Idle or while Dragging, leaves that node
\* with fx and fy unset and changes no other node's pin.
C16_DoubleClickUnpinsOnlyThatNode ==
    [][ last' = "doubleClicked" =>
          \E n \in Nodes :
              /\ IsNullish(fx'[n]) /\ IsNullish(fy'[n])
              /\ \A m \in Nodes \ {n} : fx'[m] = fx[m] /\ fy'[m] = fy[m] ]_vars

\* a double-click while Dragging on the node that is not dragged
C16_Witness ==
    /\ last = "doubleClicked"
    /\ gesture.active
    /\ \E n \in Nodes \ {gesture.node} : fx[n] = Undefined /\ fy[n] = Undefined
    /\ fx[gesture.node].t = "num" /\ fy[gesture.node].t = "num"

\* C17: a node's fx, fy are changed only by drag-start and drag of that node,
\* by double-click and by reset (which render() starts with); simulation
\* ticks, paints, zoom, pan and pointer-up leave every pin unchanged.
C17_PinsChangedOnlyByDragDoubleClickReset ==
    [][ /\ \A n \in Nodes :
              (fx'[n] # fx[n] \/ fy'[n] # fy[n]) =>
                  \/ last' = "reset"
                  \/ pc = "constructed" /\ last' = "render"
                  \/ last' = "dragStarted" /\ gesture'.node = n
                  \/ last' = "dragged" /\ gesture.active /\ gesture.node = n
                  \/ last' = "doubleClicked"
        /\ last' \in {"tick", "zoom", "pan", "dragEnded"} => fx' = fx /\ fy' = fy ]_vars

\* ticks after pointer-up: the dropped node is still pinned, and at its pin
C17_Witness ==
    /\ last = "tick"
    /\ ~gesture.active /\ gesture.moved
    /\ fx[gesture.node].t = "num" /\ fy[gesture.node].t = "num"
    /\ x[gesture.node] = fx[gesture.node] /\ y[gesture.node] = fy[gesture.node]
    /\ \E n \in Nodes : IsNullish(fx[n])

\* C18: a zoom or pan gesture changes only the view transform (no node
\* position, pin or width), and drag-start, drag and double-click leave the
\* view transform unchanged.
C18_ZoomAndDragOrthogonal ==
    [][ /\ last' \in {"zoom", "pan"} =>
              /\ transform' # transform
              /\ UNCHANGED <<x, y, fx, fy, width>>
        /\ last' \in {"dragStarted", "dragged", "doubleClicked"} =>
              transform' = transform ]_vars

\* a zoom during a drag gesture: the pin of the dragged node is in place
C18_Witness ==
    /\ last = "zoom"
    /\ gesture.active /\ gesture.moved
    /\ fx[gesture.node].t = "num"
    /\ transform.k = ScaleMin


\* C20: after a drag gesture has ended (pointer-up), unless a further pointer
\* or reset event occurs, the simulation eventually cools down: ticking has
\* halted and the final snap pass (animationEnd) has run.
C20_CoolsAfterDragEnd ==
    (last = "dragEnded") ~>
        (\/ last \notin {"dragEnded", "tick"}
         \/ ~running /\ lastPaint = "end")


\* C21: pointer-down over a node while Idle makes the state Dragging, sets
\* the target alpha to the re-heating threshold 0.3 and restarts the timer,
\* and pins the grabbed node at the exact (unsnapped) position of the event;
\* while alpha is below the threshold, the ticks that follow raise it.
C21_PointerDownReheatsAndPins ==
    [][ /\ last' = "dragStarted" =>
              /\ ~gesture.active /\ gesture'.active
              /\ alphaTarget' = ReheatTarget /\ running'
              /\ fx'[gesture'.node] = x[gesture'.node]
              /\ fy'[gesture'.node] = y[gesture'.node]
              /\ \A m \in Nodes \ {gesture'.node} : fx'[m] = fx[m] /\ fy'[m] = fy[m]
        /\ (pc = "live" /\ last' = "tick" /\ alphaTarget = ReheatTarget /\ alpha < AlphaHot) =>
              alpha' > alpha /\ alpha' <= ReheatTarget ]_vars

C21_Witness ==
    /\ last = "dragStarted"
    /\ gesture.active /\ ~gesture.moved
    /\ running /\ alphaTarget = ReheatTarget /\ alpha < ReheatTarget
    /\ fx[gesture.node] = x[gesture.node] /\ fy[gesture.node] = y[gesture.node]
    /\ ~OnGrid(fx[gesture.node])
    /\ paints = 1


\* C22: a drag event at pointer position (px, py) leaves the dragged node's
\* pin at (snap(px), snap(py)), where snap(v) is a multiple of 20 at most 10
\* away from v and snap(snap(v)) = snap(v); no other node's pin changes.
C22_DragPinsToNearestGridPoint ==
    [][ last' = "dragged" =>
          LET n == gesture.node
              px == gesture'.at[1]
              py == gesture'.at[2]
          IN  /\ gesture.active /\ gesture'.node = n
              /\ fx'[n].t = "num" /\ fy'[n].t = "num"
              /\ fx'[n].v % gridSize = 0 /\ fy'[n].v % gridSize = 0
              /\ Abs(fx'[n].v - px) <= 10 /\ Abs(fy'[n].v - py) <= 10
              /\ snapToGrid(fx'[n].v) = fx'[n].v /\ snapToGrid(fy'[n].v) = fy'[n].v
              /\ \A m \in Nodes \ {n} : fx'[m] = fx[m] /\ fy'[m] = fy[m] ]_vars

\* a drag event half way between two grid lines, away from the origin
C22_Witness ==
    /\ last = "dragged"
    /\ gesture.at = <<-30, 37>>
    /\ fx[gesture.node] = Num(-20) /\ fy[gesture.node] = Num(40)
    /\ \E m \in Nodes \ {gesture.node} : fx[m].t = "num"


\* The vector from the source centre to the target centre; the link angle a
\* is its angle (0 for the zero vector).
LinkDx == geo.tx - geo.sx
LinkDy == geo.ty - geo.sy

\* The direction the label's rotation turns the x axis to: the direction
\* (rotate.dx, rotate.dy), reversed when 180 degrees are added.
RotatedDx == IF geo.label.rotate.plus = 180 THEN -geo.label.rotate.dx ELSE geo.label.rotate.dx
RotatedDy == IF geo.label.rotate.plus = 180 THEN -geo.label.rotate.dy ELSE geo.label.rotate.dy

\* The rotation is the angle of (dx, dy) plus the given number of degrees.
RotationIs(dx, dy, plus) ==
    /\ geo.label.rotate.plus = plus
    /\ geo.label.rotate.dx * dy = geo.label.rotate.dy * dx
    /\ geo.label.rotate.dx * dx + geo.label.rotate.dy * dy > 0

\* C23: the label rotation is the link angle a when -45 < a < 45 (offsets
\* 0), a + 180 with x-offset 10 when a < -135 or a > 135, and 0 with offsets
\* (10, -10) otherwise, exactly 45 and 135 degrees included; so the rotation
\* modulo 360 lies strictly between -45 and 45 degrees.
C23_LabelRotationByAngle ==
    geo.done =>
        /\ IF (LinkDx > 0 /\ Abs(LinkDy) < LinkDx) \/ (LinkDx = 0 /\ LinkDy = 0)
           THEN /\ IF LinkDx = 0 THEN RotationIs(1, 0, 0) ELSE RotationIs(LinkDx, LinkDy, 0)
                /\ geo.label.xOffset = 0 /\ geo.label.yOffset = 0
           ELSE IF LinkDx < 0 /\ Abs(LinkDy) < -LinkDx
           THEN /\ RotationIs(LinkDx, LinkDy, 180)
                /\ geo.label.xOffset = 10 /\ geo.label.yOffset = 0
           ELSE /\ RotationIs(1, 0, 0)
                /\ geo.label.xOffset = 10 /\ geo.label.yOffset = -10
        /\ RotatedDx > 0 /\ Abs(RotatedDy) < RotatedDx

\* a link at exactly 45 degrees
C23_Witness ==
    /\ geo.done
    /\ LinkDx = 10 /\ LinkDy = 10
    /\ geo.label.rotate = [dx |-> 1, dy |-> 0, plus |-> 0]
    /\ geo.label.xOffset = 10 /\ geo.label.yOffset = -10

\* a link that points left and up: its label is turned by 180 degrees
C23_FlippedWitness ==
    /\ geo.done
    /\ LinkDx < 0 /\ LinkDy < 0 /\ Abs(LinkDy) < -LinkDx
    /\ geo.label.rotate.plus = 180
    /\ RotatedDx > 0


\* The label lines among the tspans made, in order.
ShownLabels ==
    LET IsLabelSpan(t) == t.kind = "label"
    IN  SelectSeq(lab.tspans, IsLabelSpan)

\* The first k tspans are the first k labels of the link, in sequence order,
\* each with its class, and they are all the label lines there are.
FirstLabelsShown(k) ==
    /\ Len(ShownLabels) = k
    /\ \A i \in 1..k :
          /\ lab.tspans[i].kind = "label"
          /\ lab.tspans[i].content = lab.labels[i].content
          /\ lab.tspans[i].class = lab.labels[i].class

SimulationStep == (pc = "settle" /\ settled' = settled + 1) \/ last' = "tick"

\* C25: after every simulation step a node whose fx is set has x = fx and a
\* node whose fy is set has y = fy, while along an axis without a pin (never
\* pinned, or released by double-click) the node is where the forces put it.
C25_PinnedAxesHeld ==
    [][ SimulationStep =>
          \E f \in ForceLayouts :
              \A n \in Nodes :
                  /\ x'[n] = (IF fx[n].t = "num" THEN fx[n] ELSE Num(f[n][1]))
                  /\ y'[n] = (IF fy[n].t = "num" THEN fy[n] ELSE Num(f[n][2]))
                  /\ fx'[n] = fx[n] /\ fy'[n] = fy[n] ]_vars

\* after a tick: a node released by double-click is where the forces put it,
\* off its old pin, and the other node is at its pin
C25_Witness ==
    /\ last = "tick"
    /\ \E n \in Nodes :
          /\ fx[n] = Undefined /\ fy[n] = Undefined
          /\ <<x[n].v, y[n].v>> \in ForcePts
          /\ \E m \in Nodes \ {n} :
                /\ fx[m].t = "num" /\ fy[m].t = "num"
                /\ x[m] = fx[m] /\ y[m] = fy[m]
                /\ <<x[m].v, y[m].v>> \notin ForcePts


\* The clearance the label anchor leaves for a node: half its width, or 25
\* for a node without a width; doubled.
Clearance2(n) == IF width[n].t = "num" THEN width[n].v ELSE 50

\* C26: after render() every rule-call node has
\* width = max(ceil(rendered label length), 70) + 20, at least 90, and a node
\* of any other type has no width; the label anchor of a link is computed with
\* half the width of a node that has one and with 25 for a node without.
C26_RuleCallWidths ==
    (pc \in {"settle", "live"}) =>
        /\ \A n \in Nodes :
              IF data.types[n] = ATNRuleType
              THEN /\ width[n].t = "num"
                   /\ width[n].v = Max(-((-data.textLen[n]) \div 10), 70) + 20
                   /\ width[n].v >= 90
              ELSE width[n] = Undefined
        /\ pc = "live" =>
              \A i \in DOMAIN data.links :
                  LET s == data.links[i][1]
                      t == data.links[i][2]
                  IN  painted.links[i].label.anchor.x4 =
                          2 * (x[s].v + x[t].v) + Clearance2(s) - Clearance2(t)

\* a rule-call node with a short name next to one with a long name
C26_Witness ==
    /\ pc = "live"
    /\ \E n, m \in Nodes :
          /\ data.types[n] = ATNRuleType /\ data.textLen[n] = 100 /\ width[n] = Num(90)
          /\ data.types[m] = ATNRuleType /\ data.textLen[m] = 925 /\ width[m] = Num(113)
          /\ \E i \in DOMAIN data.links :
                /\ data.links[i] = <<n, m>>
                /\ painted.links[i].label.anchor.x4 = 2 * (x[n].v + x[m].v) - 23

\* a link from a node without a width to a rule-call node
C26_ClearanceWitness ==
    /\ pc = "live"
    /\ \E i \in DOMAIN data.links :
          /\ width[data.links[i][1]] = Undefined
          /\ width[data.links[i][2]] = Num(113)
          /\ painted.links[i].label.anchor.x4 =
                2 * (x[data.links[i][1]].v + x[data.links[i][2]].v) + 50 - 113


\* C27: a double-click leaves the clicked node's fy unset also when it is a
\* RuleStart or RuleStop node (it never sets a pin); the unset fy of such a
\* node then stays unset through ticks, zoom and pan gestures, is set to 0 by
\* resetTransformation only, and is set by a drag of that node to the event
\* position (snapped for drag events).
C27_StartStopStaysUnpinned ==
    [][ /\ last' = "doubleClicked" =>
              /\ \E n \in Nodes : fy'[n] = Undefined /\ fx'[n] = Undefined
              /\ \A n \in Nodes : fy'[n] = fy[n] \/ fy'[n] = Undefined
        /\ \A n \in Nodes :
              (pc = "live" /\ IsStartOrStop(n) /\ IsNullish(fy[n])) =>
                  \/ fy'[n] = fy[n]
                  \/ last' = "doubleClicked" /\ fy'[n] = Undefined
                  \/ last' = "reset" /\ fy'[n] = Num(0)
                  \/ /\ last' = "dragStarted" /\ gesture'.node = n
                     /\ fy'[n] = Num(gesture'.at[2])
                  \/ /\ last' = "dragged" /\ gesture.node = n
                     /\ fy'[n] = Num(snapToGrid(gesture'.at[2])) ]_vars

\* a start or stop node released by double-click has left y = 0 with the
\* forces and is still unpinned after a zoom gesture
C27_Witness ==
    /\ last = "zoom"
    /\ running
    /\ \E n \in Nodes :
          /\ IsStartOrStop(n)
          /\ fy[n] = Undefined
          /\ y[n].v # 0


\* The links are drawn from the node positions as they are: the line starts
\* at the source centre, ends at the target centre unless the target is a
\* rule-call node other than the source (then within its rectangle about the
\* centre), and the label is anchored between the two centres.
LinksDrawnUnsnapped(p) ==
    \A i \in DOMAIN data.links :
        LET s == data.links[i][1]
            t == data.links[i][2]
            l == p.links[i]
        IN  /\ l.line.x1 = x[s].v /\ l.line.y1 = y[s].v
            /\ IF data.types[t] = ATNRuleType /\ s # t
               THEN /\ 2 * Abs(l.line.x2.n - x[t].v * l.line.x2.d) <= width[t].v * l.line.x2.d
                    /\ Abs(l.line.y2.n - y[t].v * l.line.y2.d) <= 25 * l.line.y2.d
               ELSE /\ l.line.x2 = [n |-> x[t].v, d |-> 1]
                    /\ l.line.y2 = [n |-> y[t].v, d |-> 1]
            /\ l.label.anchor = [x4 |-> 2 * (x[s].v + x[t].v) + Clearance2(s) - Clearance2(t),
                                 y2 |-> y[s].v + y[t].v]

\* C28: animationTick and animationEnd change no node position and no pin;
\* animationTick draws the figures at the node positions, the snap pass at
\* the nearest grid points, and both draw the line ends and label anchors
\* from the unsnapped positions.
C28_PaintsLeaveNodesAlone ==
    [][ /\ UNCHANGED <<x, y, fx, fy, width>>
        /\ LinksDrawnUnsnapped(painted')
        /\ painted'.links = painted.links
        /\ \A n \in Nodes :
              IF lastPaint' = "end"
              THEN /\ painted'.figures[n][1] % gridSize = 0
                   /\ painted'.figures[n][2] % gridSize = 0
                   /\ Abs(painted'.figures[n][1] - x[n].v) <= 10
                   /\ Abs(painted'.figures[n][2] - y[n].v) <= 10
              ELSE painted'.figures[n] = <<x[n].v, y[n].v>> ]_vars

\* after the snap pass: the figure of a pinned node off the grid is drawn on
\* the grid, the node and its pin are where they were
C28_Witness ==
    /\ lastPaint = "end"
    /\ x[1] = Num(-13) /\ y[1] = Num(26)
    /\ fx[1] = Num(-13) /\ fy[1] = Num(26)
    /\ painted.figures[1] = <<-20, 20>>
    /\ painted.links[1].line.x1 = -13 /\ painted.links[1].line.y1 = 26


C30_RuleSpecVisits ==
    [][ visitor' # visitor =>
          IF ~visitor'.hasBlock
          THEN /\ visitor'.result = "# Syntax Error #"
               /\ visitor'.scripts = visitor.scripts
          ELSE /\ visitor'.result # "# Syntax Error #"
               /\ DOMAIN visitor'.scripts = DOMAIN visitor.scripts \cup {visitor'.name}
               /\ visitor'.scripts[visitor'.name] = visitor'.result
               /\ \A k \in DOMAIN visitor.scripts \ {visitor'.name} :
                     visitor'.scripts[k] = visitor.scripts[k] ]_vars

\* a rule spec without a rule block was visited after diagrams were stored
\* for it and for another rule: both entries are there
C30_Witness ==
    /\ ~visitor.hasBlock
    /\ visitor.name = "expr"
    /\ visitor.result = "# Syntax Error #"
    /\ DOMAIN visitor.scripts = {"expr", "ID"}
    /\ visitor.scripts["expr"] = "ComplexDiagram(Choice(0, Sequence(), Sequence(NonTerminal('expr')))).addTo()"
    /\ visitor.scripts["ID"] = "Diagram(Choice(0, )).addTo()"

\* a lexer rule spec with a rule block was visited: its entry is the result
C30_StoredWitness ==
    /\ visitor.hasBlock
    /\ visitor.name = "ID"
    /\ visitor.result = "Diagram(Choice(0, , )).addTo()"
    /\ DOMAIN visitor.scripts = {"expr", "stat", "ID"}
    /\ visitor.scripts["ID"] = visitor.result

=============================================================================
